---- MODULE Spec2Model ----
(***************************************************************************)
(* Model of drivers/gpu/drm/meson/meson_osd_afbcd.c: the two AFBC decoder  *)
(* back-ends (GXM "MESON_AFBC", G12A "MALI_AFBC") behind meson_afbcd_ops.  *)
(*                                                                         *)
(* Register words are kept as the operands the code ORs together: a set    *)
(* of (field, value) pairs, one per FIELD_PREP or flag, because the bit    *)
(* positions live in meson_registers.h.  Widths and heights are at least   *)
(* 1 and all values stay below 2^31, so no u32 arithmetic wraps.           *)
(* The RDMA transport (meson_rdma.c) is modelled from its documented       *)
(* contract: writes are queued, a flush arms the queue, a vsync replays    *)
(* the armed writes in order.                                              *)
(***************************************************************************)
EXTENDS Integers, Sequences, FiniteSets, TLC

VARIABLES gen,     \* 1: meson_afbcd_gxm_ops, 2: meson_afbcd_g12a_ops
          afbcd,   \* priv->afbcd.{modifier, format}
          viu,     \* priv->viu.{osd1_addr, osd1_width, osd1_height}
          io,      \* registers behind priv->io_base, as the hardware sees them
          rdma,    \* priv->rdma: ready, queue (unflushed), armed (flushed)
          hist,    \* <<the call before the newest, the newest call>>
          ret,     \* return value of the newest call
          fail,    \* index of the transport call that failed in the newest call, 0: none
          faulted, \* a transport call has failed in this run (at most one does)
          want,    \* "never" | "on" | "off": the newer of enable / disable
          q        \* the newest capability query and its answers

vars == <<gen, afbcd, viu, io, rdma, hist, ret, fail, faulted, want, q>>

----------------------------------------------------------------------------
(* Bounds of the model *)

MaxQueueLen == 17     \* entries the transport holds (queue + armed)
MaxWidth == 2100      \* widths explored for the line-buffer table

----------------------------------------------------------------------------
(* Constants *)

EINVAL == 22
ENOMEM == 12

OSD1_AFBCD_RGB32 == 21

MAFBC_FMT_RGB565 == 0
MAFBC_FMT_RGB888 == 4
MAFBC_FMT_RGBA8888 == 5

\* AFBC modifier bits (drm_fourcc.h)
AFBC_FORMAT_MOD_BLOCK_SIZE_MASK == 15
AFBC_FORMAT_MOD_BLOCK_SIZE_16x16 == 1
AFBC_FORMAT_MOD_BLOCK_SIZE_32x8 == 2
AFBC_FORMAT_MOD_BLOCK_SIZE_64x4 == 3
AFBC_FORMAT_MOD_YTR == 16
AFBC_FORMAT_MOD_SPLIT == 32
AFBC_FORMAT_MOD_SPARSE == 64
AFBC_FORMAT_MOD_TILED == 256

RECURSIVE BitAnd(_, _)
BitAnd(a, b) ==
    IF a = 0 \/ b = 0 THEN 0
    ELSE (IF a % 2 = 1 /\ b % 2 = 1 THEN 1 ELSE 0) + 2 * BitAnd(a \div 2, b \div 2)

\* the pixel formats the model draws from; the last three are outside every table
Formats == {"DRM_FORMAT_XRGB8888", "DRM_FORMAT_ARGB8888",
            "DRM_FORMAT_XBGR8888", "DRM_FORMAT_ABGR8888",
            "DRM_FORMAT_RGB888", "DRM_FORMAT_RGB565",
            "DRM_FORMAT_RGBA8888", "DRM_FORMAT_NV12", "DRM_FORMAT_YUYV"}

BlockSizes == {0, AFBC_FORMAT_MOD_BLOCK_SIZE_16x16, AFBC_FORMAT_MOD_BLOCK_SIZE_32x8,
               AFBC_FORMAT_MOD_BLOCK_SIZE_64x4}

FlagSums == {y + s + p + t : y \in {0, AFBC_FORMAT_MOD_YTR},
                             s \in {0, AFBC_FORMAT_MOD_SPLIT},
                             p \in {0, AFBC_FORMAT_MOD_SPARSE},
                             t \in {0, AFBC_FORMAT_MOD_TILED}}

Modifiers == {b + f : b \in BlockSizes, f \in FlagSums}

----------------------------------------------------------------------------
(* Amlogic AFBC Decoder for GXM Family: format negotiation *)

meson_gxm_afbcd_pixel_fmt(modifier, format) ==
    IF format \in {"DRM_FORMAT_XBGR8888", "DRM_FORMAT_ABGR8888"}
    THEN OSD1_AFBCD_RGB32
    ELSE -EINVAL

gxm_supported_any_block(modifier, format) ==
    IF BitAnd(modifier, AFBC_FORMAT_MOD_YTR) = 0 THEN FALSE
    ELSE meson_gxm_afbcd_pixel_fmt(modifier, format) >= 0

meson_gxm_afbcd_supported_fmt(modifier, format) ==
    IF BitAnd(modifier, AFBC_FORMAT_MOD_BLOCK_SIZE_32x8) # 0 THEN FALSE
    ELSE IF BitAnd(modifier, AFBC_FORMAT_MOD_YTR) = 0 THEN FALSE
    ELSE meson_gxm_afbcd_pixel_fmt(modifier, format) >= 0

(* ARM AFBC Decoder for G12A Family: format negotiation *)

meson_g12a_afbcd_pixel_fmt(modifier, format) ==
    CASE format \in {"DRM_FORMAT_XRGB8888", "DRM_FORMAT_ARGB8888"} ->
            IF BitAnd(modifier, AFBC_FORMAT_MOD_YTR) # 0
            THEN -EINVAL ELSE MAFBC_FMT_RGBA8888
      [] format \in {"DRM_FORMAT_XBGR8888", "DRM_FORMAT_ABGR8888"} ->
            MAFBC_FMT_RGBA8888
      [] format = "DRM_FORMAT_RGB888" ->
            IF BitAnd(modifier, AFBC_FORMAT_MOD_YTR) # 0
            THEN -EINVAL ELSE MAFBC_FMT_RGB888
      [] format = "DRM_FORMAT_RGB565" ->
            IF BitAnd(modifier, AFBC_FORMAT_MOD_YTR) # 0
            THEN -EINVAL ELSE MAFBC_FMT_RGB565
      [] OTHER -> -EINVAL

bpp_without_rgb565(format) ==
    CASE format \in {"DRM_FORMAT_XRGB8888", "DRM_FORMAT_ARGB8888",
                     "DRM_FORMAT_XBGR8888", "DRM_FORMAT_ABGR8888"} -> 32
      [] format = "DRM_FORMAT_RGB888" -> 24
      [] OTHER -> 0

meson_g12a_afbcd_bpp(format) ==
    CASE format \in {"DRM_FORMAT_XRGB8888", "DRM_FORMAT_ARGB8888",
                     "DRM_FORMAT_XBGR8888", "DRM_FORMAT_ABGR8888"} -> 32
      [] format = "DRM_FORMAT_RGB888" -> 24
      [] format = "DRM_FORMAT_RGB565" -> 16
      [] OTHER -> 0

\* the block modes are kept by name (OSD_MALI_COLOR_MODE_*); an error is -EINVAL
meson_g12a_afbcd_fmt_to_blk_mode(modifier, format) ==
    CASE format \in {"DRM_FORMAT_XRGB8888", "DRM_FORMAT_ARGB8888",
                     "DRM_FORMAT_XBGR8888", "DRM_FORMAT_ABGR8888"} ->
            [ok |-> TRUE, mode |-> "OSD_MALI_COLOR_MODE_RGBA8888", err |-> 0]
      [] format = "DRM_FORMAT_RGB888" ->
            [ok |-> TRUE, mode |-> "OSD_MALI_COLOR_MODE_RGB888", err |-> 0]
      [] format = "DRM_FORMAT_RGB565" ->
            [ok |-> TRUE, mode |-> "OSD_MALI_COLOR_MODE_RGB565", err |-> 0]
      [] OTHER -> [ok |-> FALSE, mode |-> "", err |-> -EINVAL]

g12a_supported_positive_code(modifier, format) ==
    meson_g12a_afbcd_pixel_fmt(modifier, format) > 0

meson_g12a_afbcd_supported_fmt(modifier, format) ==
    meson_g12a_afbcd_pixel_fmt(modifier, format) >= 0

supported_fmt(g, modifier, format) ==
    IF g = 1 THEN meson_gxm_afbcd_supported_fmt(modifier, format)
    ELSE meson_g12a_afbcd_supported_fmt(modifier, format)

----------------------------------------------------------------------------
(* Register words and the direct (MMIO) write primitives *)

FIELD_PREP(field, v) == IF v = 0 THEN {} ELSE {<<field, v>>}
BIT(name) == {<<name, 1>>}

writel_relaxed(val, reg, regs) == [regs EXCEPT ![reg] = val]

\* read-modify-write: fields named in mask are replaced by val, the rest kept
writel_bits_relaxed(mask, val, reg, regs) ==
    [regs EXCEPT ![reg] = {p \in regs[reg] : p[1] \notin mask} \cup val]

WordRegs == {"VIU_SW_RESET", "OSD1_AFBCD_ENABLE", "OSD1_AFBCD_MODE",
             "OSD1_AFBCD_SIZE_IN", "OSD1_AFBCD_PIXEL_HSCOPE",
             "OSD1_AFBCD_PIXEL_VSCOPE", "OSD1_AFBCD_CHROMA_PTR",
             "MALI_AFBCD_TOP_CTRL",
             "VPU_MAFBC_IRQ_MASK", "VPU_MAFBC_SURFACE_CFG", "VPU_MAFBC_COMMAND",
             "VPU_MAFBC_FORMAT_SPECIFIER_S0", "VPU_MAFBC_OUTPUT_BUF_ADDR_LOW_S0"}

NumRegs == {"OSD1_AFBCD_HDR_PTR", "OSD1_AFBCD_FRAME_PTR",
            "OSD1_AFBCD_CONV_CTRL",
            "VPU_MAFBC_HEADER_BUF_ADDR_LOW_S0", "VPU_MAFBC_HEADER_BUF_ADDR_HIGH_S0",
            "VPU_MAFBC_BUFFER_WIDTH_S0", "VPU_MAFBC_BUFFER_HEIGHT_S0",
            "VPU_MAFBC_BOUNDING_BOX_X_START_S0", "VPU_MAFBC_BOUNDING_BOX_X_END_S0",
            "VPU_MAFBC_BOUNDING_BOX_Y_START_S0", "VPU_MAFBC_BOUNDING_BOX_Y_END_S0",
            "VPU_MAFBC_OUTPUT_BUF_ADDR_HIGH_S0", "VPU_MAFBC_OUTPUT_BUF_STRIDE_S0"}

Regs == WordRegs \cup NumRegs

\* a sequence of (register, value) writes applied in order
RECURSIVE Replay(_, _)
Replay(regs, ws) ==
    IF ws = <<>> THEN regs
    ELSE Replay(writel_relaxed(Head(ws)[2], Head(ws)[1], regs), Tail(ws))

\* ws without its k-th element (k = 0 or k > Len(ws): ws itself)
Drop(ws, k) ==
    IF k \notin 1..Len(ws) THEN ws
    ELSE [i \in 1..(Len(ws) - 1) |-> IF i < k THEN ws[i] ELSE ws[i + 1]]

ALIGN(x, a) == ((x + a - 1) \div a) * a

----------------------------------------------------------------------------
(* GXM: register program *)

conv_lbuf_len_off_by_one(width) ==
    IF width < 128 THEN 32
    ELSE IF width < 256 THEN 64
    ELSE IF width < 512 THEN 128
    ELSE IF width < 1024 THEN 256
    ELSE IF width < 2048 THEN 512
    ELSE 1024

conv_lbuf_len(width) ==
    IF width <= 128 THEN 32
    ELSE IF width <= 256 THEN 64
    ELSE IF width <= 512 THEN 128
    ELSE IF width <= 1024 THEN 256
    ELSE IF width <= 2048 THEN 512
    ELSE 1024

gxm_mode(a) ==
    FIELD_PREP("OSD1_AFBCD_MIF_URGENT", 3) \cup
    FIELD_PREP("OSD1_AFBCD_HOLD_LINE_NUM", 4) \cup
    FIELD_PREP("OSD1_AFBCD_RGBA_EXCHAN_CTRL", 52) \cup
    FIELD_PREP("pixel_fmt", meson_gxm_afbcd_pixel_fmt(a.modifier, a.format)) \cup
    (IF BitAnd(a.modifier, AFBC_FORMAT_MOD_SPARSE) # 0
     THEN BIT("OSD1_AFBCD_HREG_HALF_BLOCK") ELSE {}) \cup
    (IF BitAnd(a.modifier, AFBC_FORMAT_MOD_SPLIT) # 0
     THEN BIT("OSD1_AFBCD_HREG_BLOCK_SPLIT") ELSE {})

\* the writes of meson_gxm_afbcd_setup, in program order
gxm_setup_writes(a, v) ==
    << <<"OSD1_AFBCD_MODE", gxm_mode(a)>>,
       <<"OSD1_AFBCD_SIZE_IN",
         FIELD_PREP("OSD1_AFBCD_HREG_VSIZE_IN", v.osd1_width) \cup
         FIELD_PREP("OSD1_AFBCD_HREG_HSIZE_IN", v.osd1_height)>>,
       <<"OSD1_AFBCD_HDR_PTR", v.osd1_addr \div 16>>,
       <<"OSD1_AFBCD_FRAME_PTR", v.osd1_addr \div 16>>,
       \* (0xe4 << 24) | (osd1_addr & 0xffffff), kept as its two operands
       <<"OSD1_AFBCD_CHROMA_PTR",
         FIELD_PREP("bits_31_24", 228) \cup
         FIELD_PREP("bits_23_0", v.osd1_addr % 16777216)>>,
       <<"OSD1_AFBCD_CONV_CTRL", conv_lbuf_len(v.osd1_width)>>,
       <<"OSD1_AFBCD_PIXEL_HSCOPE",
         FIELD_PREP("OSD1_AFBCD_DEC_PIXEL_BGN_H", 0) \cup
         FIELD_PREP("OSD1_AFBCD_DEC_PIXEL_END_H", v.osd1_width - 1)>>,
       <<"OSD1_AFBCD_PIXEL_VSCOPE",
         FIELD_PREP("OSD1_AFBCD_DEC_PIXEL_BGN_V", 0) \cup
         FIELD_PREP("OSD1_AFBCD_DEC_PIXEL_END_V", v.osd1_height - 1)>> >>

(* G12A: register program *)

g12a_format(a) ==
    FIELD_PREP("pixel_fmt", meson_g12a_afbcd_pixel_fmt(a.modifier, a.format)) \cup
    (IF BitAnd(a.modifier, AFBC_FORMAT_MOD_YTR) # 0
     THEN BIT("VPU_MAFBC_YUV_TRANSFORM") ELSE {}) \cup
    (IF BitAnd(a.modifier, AFBC_FORMAT_MOD_SPLIT) # 0
     THEN BIT("VPU_MAFBC_BLOCK_SPLIT") ELSE {}) \cup
    (IF BitAnd(a.modifier, AFBC_FORMAT_MOD_TILED) # 0
     THEN BIT("VPU_MAFBC_TILED_HEADER_EN") ELSE {}) \cup
    (IF BitAnd(a.modifier, AFBC_FORMAT_MOD_BLOCK_SIZE_MASK) =
            AFBC_FORMAT_MOD_BLOCK_SIZE_32x8
     THEN FIELD_PREP("VPU_MAFBC_SUPER_BLOCK_ASPECT", 1) ELSE {})

\* the synchronized writes of meson_g12a_afbcd_setup, in program order
g12a_setup_writes(a, v) ==
    << <<"VPU_MAFBC_FORMAT_SPECIFIER_S0", g12a_format(a)>>,
       <<"VPU_MAFBC_HEADER_BUF_ADDR_LOW_S0", v.osd1_addr>>,
       <<"VPU_MAFBC_HEADER_BUF_ADDR_HIGH_S0", 0>>,
       <<"VPU_MAFBC_BUFFER_WIDTH_S0", v.osd1_width>>,
       <<"VPU_MAFBC_BUFFER_HEIGHT_S0", ALIGN(v.osd1_height, 32)>>,
       <<"VPU_MAFBC_BOUNDING_BOX_X_START_S0", 0>>,
       <<"VPU_MAFBC_BOUNDING_BOX_X_END_S0", v.osd1_width - 1>>,
       <<"VPU_MAFBC_BOUNDING_BOX_Y_START_S0", 0>>,
       <<"VPU_MAFBC_BOUNDING_BOX_Y_END_S0", v.osd1_height - 1>>,
       \* the fixed output address of meson_osd_afbcd.h, kept by name
       <<"VPU_MAFBC_OUTPUT_BUF_ADDR_LOW_S0", BIT("MESON_G12A_AFBCD_OUT_ADDR")>>,
       <<"VPU_MAFBC_OUTPUT_BUF_ADDR_HIGH_S0", 0>>,
       <<"VPU_MAFBC_OUTPUT_BUF_STRIDE_S0",
         v.osd1_width * (meson_g12a_afbcd_bpp(a.format) \div 8)>> >>

\* the synchronized writes of meson_g12a_afbcd_reset and _enable
g12a_reset_writes ==
    << <<"VIU_SW_RESET", BIT("VIU_SW_RESET_G12A_AFBC_ARB") \cup
                         BIT("VIU_SW_RESET_G12A_OSD1_AFBCD")>>,
       <<"VIU_SW_RESET", {}>> >>

g12a_enable_writes ==
    << <<"VPU_MAFBC_IRQ_MASK", BIT("VPU_MAFBC_IRQ_SURFACES_COMPLETED") \cup
                               BIT("VPU_MAFBC_IRQ_CONFIGURATION_SWAPPED") \cup
                               BIT("VPU_MAFBC_IRQ_DECODE_ERROR") \cup
                               BIT("VPU_MAFBC_IRQ_DETILING_ERROR")>>,
       <<"VPU_MAFBC_SURFACE_CFG", BIT("VPU_MAFBC_S0_ENABLE")>>,
       <<"VPU_MAFBC_COMMAND", BIT("VPU_MAFBC_DIRECT_SWAP")>> >>

----------------------------------------------------------------------------
(* The synchronized write transport of meson_rdma.c, from its contract:   *)
(* sync_init, sync_reset, sync_write (queues), sync_flush (arms the queue  *)
(* for the next vsync).  A call that fails has no effect.                  *)

meson_rdma_init(r) == [r EXCEPT !.ready = TRUE, !.queue = <<>>]

meson_rdma_reset(r) == [r EXCEPT !.queue = <<>>]

\* meson_rdma_writel_sync for each write of ws in order, the k-th one failing
meson_rdma_writel_sync(r, ws, k) == [r EXCEPT !.queue = @ \o Drop(ws, k)]

meson_rdma_flush(r) == [r EXCEPT !.armed = @ \o r.queue, !.queue = <<>>]

\* room left in the transport for n more entries
rdma_room(n) == Len(rdma.queue) + Len(rdma.armed) + n <= MaxQueueLen

----------------------------------------------------------------------------
(* Inputs *)

\* buffer descriptors handed to setup in the lifecycle specification: one that
\* both generations accept, one that both reject (YTR on RGB565)
Descs == {[a |-> [modifier |-> AFBC_FORMAT_MOD_BLOCK_SIZE_16x16 + AFBC_FORMAT_MOD_YTR +
                               AFBC_FORMAT_MOD_SPARSE,
                  format |-> "DRM_FORMAT_ABGR8888"],
           v |-> [osd1_addr |-> 305419896, osd1_width |-> 800, osd1_height |-> 481]],
          [a |-> [modifier |-> AFBC_FORMAT_MOD_BLOCK_SIZE_16x16 + AFBC_FORMAT_MOD_YTR,
                  format |-> "DRM_FORMAT_RGB565"],
           v |-> [osd1_addr |-> 16781312, osd1_width |-> 1025, osd1_height |-> 480]]}

\* the synchronized writes of setup that may fail: none, the first, the last
SetupFaults == {0, 1, 12}

\* descriptors of every width, for the line-buffer table
WideDescs == {[a |-> [modifier |-> AFBC_FORMAT_MOD_BLOCK_SIZE_16x16 + AFBC_FORMAT_MOD_YTR,
                      format |-> "DRM_FORMAT_ABGR8888"],
               v |-> [osd1_addr |-> 305419896, osd1_width |-> w, osd1_height |-> 481]] :
                  w \in 1..MaxWidth}

----------------------------------------------------------------------------
(* State *)

NoQuery == [op |-> "none", modifier |-> 0, format |-> "", supported |-> FALSE,
            code |-> 0, bpp |-> 0, blk |-> [ok |-> FALSE, mode |-> "", err |-> 0]]

Init ==
    /\ gen \in {1, 2}
    /\ afbcd = [modifier |-> 0, format |-> ""]
    /\ viu = [osd1_addr |-> 0, osd1_width |-> 0, osd1_height |-> 0]
    /\ io = [r \in Regs |-> IF r \in WordRegs THEN {} ELSE 0]
    /\ rdma = [ready |-> FALSE, queue |-> <<>>, armed |-> <<>>]
    /\ hist = <<"none", "none">>
    /\ ret = 0
    /\ fail = 0
    /\ faulted = FALSE
    /\ want = "never"
    /\ q = NoQuery

Push(h, op) == <<h[2], op>>

Last(h) == h[2]

Prev(h) == h[1]

\* bookkeeping of a call: its name, its result, the failed transport call
Called(op, r, k) ==
    /\ hist' = Push(hist, op)
    /\ ret' = r
    /\ fail' = k
    /\ k # 0 => ~faulted
    /\ faulted' = (faulted \/ k # 0)
    /\ want' = CASE op = "enable" -> "on" [] op = "disable" -> "off" [] OTHER -> want
    /\ UNCHANGED <<gen, q>>

----------------------------------------------------------------------------
(* meson_afbcd_gxm_ops *)

meson_gxm_afbcd_init ==
    /\ gen = 1
    /\ Called("init", 0, 0)
    /\ UNCHANGED <<afbcd, viu, io, rdma>>

meson_gxm_afbcd_reset ==
    /\ gen = 1
    /\ io' = writel_relaxed({}, "VIU_SW_RESET",
                 writel_relaxed(BIT("VIU_SW_RESET_OSD1_AFBCD"), "VIU_SW_RESET", io))
    /\ Called("reset", 0, 0)
    /\ UNCHANGED <<afbcd, viu, rdma>>

gxm_enable_in_mode_register ==
    /\ gen = 1
    /\ io' = writel_bits_relaxed({"OSD1_AFBCD_DEC_ENABLE"}, BIT("OSD1_AFBCD_DEC_ENABLE"),
                                 "OSD1_AFBCD_MODE", io)
    /\ Called("enable", 0, 0)
    /\ UNCHANGED <<afbcd, viu, rdma>>

meson_gxm_afbcd_enable ==
    /\ gen = 1
    /\ io' = writel_relaxed(FIELD_PREP("OSD1_AFBCD_ID_FIFO_THRD", 64) \cup
                            BIT("OSD1_AFBCD_DEC_ENABLE"),
                            "OSD1_AFBCD_ENABLE", io)
    /\ Called("enable", 0, 0)
    /\ UNCHANGED <<afbcd, viu, rdma>>

meson_gxm_afbcd_disable ==
    /\ gen = 1
    /\ io' = writel_bits_relaxed({"OSD1_AFBCD_DEC_ENABLE"}, {}, "OSD1_AFBCD_ENABLE", io)
    /\ Called("disable", 0, 0)
    /\ UNCHANGED <<afbcd, viu, rdma>>

\* the plane path stores the descriptor in priv, then calls setup
meson_gxm_afbcd_setup(d) ==
    /\ gen = 1
    /\ afbcd' = d.a
    /\ viu' = d.v
    /\ io' = Replay(io, gxm_setup_writes(d.a, d.v))
    /\ Called("setup", 0, 0)
    /\ UNCHANGED rdma

----------------------------------------------------------------------------
(* meson_afbcd_g12a_ops; k names the transport call that fails (0: none) *)

g12a_init_ignoring_ret(k) ==
    /\ gen = 2
    /\ rdma' = IF k = 1 THEN rdma ELSE meson_rdma_init(rdma)
    /\ io' = writel_bits_relaxed({"MALI_AFBCD_MANUAL_RESET"}, BIT("MALI_AFBCD_MANUAL_RESET"),
                                 "MALI_AFBCD_TOP_CTRL", io)
    /\ Called("init", 0, k)
    /\ UNCHANGED <<afbcd, viu>>

meson_g12a_afbcd_init(k) ==
    /\ gen = 2
    /\ IF k = 1
       THEN /\ Called("init", -ENOMEM, k)
            /\ UNCHANGED <<io, rdma>>
       ELSE /\ rdma' = meson_rdma_init(rdma)
            /\ io' = writel_bits_relaxed({"MALI_AFBCD_MANUAL_RESET"},
                                         BIT("MALI_AFBCD_MANUAL_RESET"),
                                         "MALI_AFBCD_TOP_CTRL", io)
            /\ Called("init", 0, k)
    /\ UNCHANGED <<afbcd, viu>>

\* call 1: meson_rdma_reset, calls 2..3: the two synchronized writes
meson_g12a_afbcd_reset(k) ==
    /\ gen = 2
    /\ rdma.ready
    /\ rdma_room(2)
    /\ rdma' = meson_rdma_writel_sync(IF k = 1 THEN rdma ELSE meson_rdma_reset(rdma),
                                      g12a_reset_writes, k - 1)
    /\ Called("reset", 0, k)
    /\ UNCHANGED <<afbcd, viu, io>>

g12a_enable_flush_first(k) ==
    /\ gen = 2
    /\ rdma.ready
    /\ rdma_room(3)
    /\ LET flushed == IF k = 4 THEN rdma ELSE meson_rdma_flush(rdma)
       IN  rdma' = meson_rdma_writel_sync(flushed, g12a_enable_writes, k)
    /\ Called("enable", 0, k)
    /\ UNCHANGED <<afbcd, viu, io>>

\* calls 1..3: the three synchronized writes, call 4: meson_rdma_flush
meson_g12a_afbcd_enable(k) ==
    /\ gen = 2
    /\ rdma.ready
    /\ rdma_room(3)
    /\ LET written == meson_rdma_writel_sync(rdma, g12a_enable_writes, k)
       IN  rdma' = IF k = 4 THEN written ELSE meson_rdma_flush(written)
    /\ Called("enable", 0, k)
    /\ UNCHANGED <<afbcd, viu, io>>

g12a_disable_synchronized ==
    /\ gen = 2
    /\ rdma.ready
    /\ rdma_room(1)
    /\ rdma' = meson_rdma_writel_sync(rdma, << <<"VPU_MAFBC_SURFACE_CFG", {}>> >>, 0)
    /\ Called("disable", 0, 0)
    /\ UNCHANGED <<afbcd, viu, io>>

meson_g12a_afbcd_disable ==
    /\ gen = 2
    /\ io' = writel_bits_relaxed({"VPU_MAFBC_S0_ENABLE"}, {}, "VPU_MAFBC_SURFACE_CFG", io)
    /\ Called("disable", 0, 0)
    /\ UNCHANGED <<afbcd, viu, rdma>>

\* calls 1..12: the twelve synchronized writes
meson_g12a_afbcd_setup(d, k) ==
    /\ gen = 2
    /\ rdma.ready
    /\ rdma_room(12)
    /\ afbcd' = d.a
    /\ viu' = d.v
    /\ rdma' = meson_rdma_writel_sync(rdma, g12a_setup_writes(d.a, d.v), k)
    /\ Called("setup", 0, k)
    /\ UNCHANGED io

\* the vertical sync: the transport replays the armed writes in order
VSync ==
    /\ gen = 2
    /\ rdma.ready
    /\ io' = Replay(io, rdma.armed)
    /\ rdma' = [rdma EXCEPT !.armed = <<>>]
    /\ hist' = Push(hist, "vsync")
    /\ UNCHANGED <<gen, afbcd, viu, ret, fail, faulted, want, q>>

----------------------------------------------------------------------------
(* Capability queries: ops->supported_fmt and ops->fmt_to_blk_mode *)

SupportedFmtGxm(m, f) ==
    /\ gen = 1
    /\ q' = [NoQuery EXCEPT !.op = "supported_fmt", !.modifier = m, !.format = f,
                            !.supported = meson_gxm_afbcd_supported_fmt(m, f),
                            !.code = meson_gxm_afbcd_pixel_fmt(m, f)]
    /\ UNCHANGED <<gen, afbcd, viu, io, rdma, hist, ret, fail, faulted, want>>

SupportedFmtG12a(m, f) ==
    /\ gen = 2
    /\ q' = [NoQuery EXCEPT !.op = "supported_fmt", !.modifier = m, !.format = f,
                            !.supported = meson_g12a_afbcd_supported_fmt(m, f),
                            !.code = meson_g12a_afbcd_pixel_fmt(m, f)]
    /\ UNCHANGED <<gen, afbcd, viu, io, rdma, hist, ret, fail, faulted, want>>

\* the three G12A lookups of one format (and modifier), side by side
LookupsG12a(m, f) ==
    /\ gen = 2
    /\ q' = [NoQuery EXCEPT !.op = "lookups", !.modifier = m, !.format = f,
                            !.supported = meson_g12a_afbcd_supported_fmt(m, f),
                            !.code = meson_g12a_afbcd_pixel_fmt(m, f),
                            !.bpp = meson_g12a_afbcd_bpp(f),
                            !.blk = meson_g12a_afbcd_fmt_to_blk_mode(m, f)]
    /\ UNCHANGED <<gen, afbcd, viu, io, rdma, hist, ret, fail, faulted, want>>

NextFmt ==
    \/ \E m \in Modifiers : \E f \in Formats : SupportedFmtGxm(m, f)
    \/ \E m \in Modifiers : \E f \in Formats : SupportedFmtG12a(m, f)
    \/ \E m \in Modifiers : \E f \in Formats : LookupsG12a(m, f)

SpecFmt == Init /\ [][NextFmt]_vars

\* GXM setup of a fresh device, over every width
NextLbuf == \E d \in WideDescs : Last(hist) = "none" /\ meson_gxm_afbcd_setup(d)

InitLbuf == Init /\ gen = 1

SpecLbuf == InitLbuf /\ [][NextLbuf]_vars

Next ==
    \/ meson_gxm_afbcd_init
    \/ meson_gxm_afbcd_reset
    \/ meson_gxm_afbcd_enable
    \/ meson_gxm_afbcd_disable
    \/ \E d \in Descs : meson_gxm_afbcd_setup(d)
    \/ \E k \in 0..1 : meson_g12a_afbcd_init(k)
    \/ \E k \in 0..3 : meson_g12a_afbcd_reset(k)
    \/ \E k \in 0..4 : meson_g12a_afbcd_enable(k)
    \/ meson_g12a_afbcd_disable
    \/ \E d \in Descs : \E k \in SetupFaults : meson_g12a_afbcd_setup(d, k)
    \/ VSync

Spec == Init /\ [][Next]_vars

----------------------------------------------------------------------------
(* Helpers of the properties *)

HasBit(m, b) == (m \div b) % 2 = 1

IsCall(op) == hist' = Push(hist, op)

GxmSetupRegs == {"OSD1_AFBCD_MODE", "OSD1_AFBCD_SIZE_IN", "OSD1_AFBCD_HDR_PTR",
                 "OSD1_AFBCD_FRAME_PTR", "OSD1_AFBCD_CHROMA_PTR", "OSD1_AFBCD_CONV_CTRL",
                 "OSD1_AFBCD_PIXEL_HSCOPE", "OSD1_AFBCD_PIXEL_VSCOPE"}

G12aSetupRegs == {"VPU_MAFBC_FORMAT_SPECIFIER_S0",
                  "VPU_MAFBC_HEADER_BUF_ADDR_LOW_S0", "VPU_MAFBC_HEADER_BUF_ADDR_HIGH_S0",
                  "VPU_MAFBC_BUFFER_WIDTH_S0", "VPU_MAFBC_BUFFER_HEIGHT_S0",
                  "VPU_MAFBC_BOUNDING_BOX_X_START_S0", "VPU_MAFBC_BOUNDING_BOX_X_END_S0",
                  "VPU_MAFBC_BOUNDING_BOX_Y_START_S0", "VPU_MAFBC_BOUNDING_BOX_Y_END_S0",
                  "VPU_MAFBC_OUTPUT_BUF_ADDR_LOW_S0", "VPU_MAFBC_OUTPUT_BUF_ADDR_HIGH_S0",
                  "VPU_MAFBC_OUTPUT_BUF_STRIDE_S0"}

SetupRegs == IF gen = 1 THEN GxmSetupRegs ELSE G12aSetupRegs

EnableReg == IF gen = 1 THEN "OSD1_AFBCD_ENABLE" ELSE "VPU_MAFBC_SURFACE_CFG"

EnableBit == IF gen = 1 THEN <<"OSD1_AFBCD_DEC_ENABLE", 1>> ELSE <<"VPU_MAFBC_S0_ENABLE", 1>>

\* register reg once everything queued or armed has been replayed: the value
\* of the last write to it, or the hardware's if none is on its way
Programmed(regs, r, reg) ==
    LET ws == r.armed \o r.queue
        at == {i \in 1..Len(ws) : ws[i][1] = reg}
    IN  IF at = {} THEN regs[reg]
        ELSE ws[CHOOSE i \in at : \A j \in at : j <= i][2]

\* the last n entries of ws
Suffix(ws, n) == SubSeq(ws, Len(ws) - n + 1, Len(ws))

----------------------------------------------------------------------------
(* C1: on both generations a setup with a (format, modifier) pair that      *)
(* supported_fmt rejects returns an error and writes nothing, neither       *)
(* directly nor into the synchronized transport.                            *)
C1_RejectedSetupWritesNothing ==
    [][(IsCall("setup") /\ ~supported_fmt(gen, afbcd'.modifier, afbcd'.format))
         => (ret' # 0 /\ io' = io /\ rdma' = rdma)]_vars

----------------------------------------------------------------------------
(* C2: on G12A nothing written through the synchronized transport is seen  *)
(* by the hardware before enable has flushed and a vsync has occurred; at  *)
(* that vsync the writes queued by the preceding setup and by enable take  *)
(* effect together, in the order queued, so the hardware never sees a part *)
(* of them.                                                                *)

SyncRegs == G12aSetupRegs \cup {"VPU_MAFBC_IRQ_MASK", "VPU_MAFBC_SURFACE_CFG",
                                "VPU_MAFBC_COMMAND", "VIU_SW_RESET"}

ZeroRegs == [r \in Regs |-> IF r \in WordRegs THEN {} ELSE 0]

\* the programs setup queues for the descriptors of the model
G12aPrograms == {g12a_setup_writes(d.a, d.v) : d \in Descs}

\* the hardware shows the whole program of one descriptor, or none of any
\* (setup writes each of its twelve registers once)
WholeImage(regs) ==
    \/ \A r \in G12aSetupRegs : regs[r] = ZeroRegs[r]
    \/ \E ws \in G12aPrograms : \A i \in 1..Len(ws) : regs[ws[i][1]] = ws[i][2]

\* a surface enabled by a replay comes with the other two writes of enable
WholeEnable(regs) ==
    <<"VPU_MAFBC_S0_ENABLE", 1>> \in regs["VPU_MAFBC_SURFACE_CFG"]
        => /\ regs["VPU_MAFBC_IRQ_MASK"] = g12a_enable_writes[1][2]
           /\ regs["VPU_MAFBC_COMMAND"] = g12a_enable_writes[3][2]

C2_State ==
    /\ ~faulted => WholeImage(io) /\ WholeEnable(io)
    /\ (Last(hist) = "enable" /\ fail = 0)
          => /\ rdma.queue = <<>>
             /\ Len(rdma.armed) >= 3
             /\ Suffix(rdma.armed, 3) = g12a_enable_writes
    /\ (hist = <<"setup", "enable">> /\ ~faulted)
          => /\ Len(rdma.armed) >= 15
             /\ Suffix(rdma.armed, 15) = g12a_setup_writes(afbcd, viu) \o g12a_enable_writes

C2_Step ==
    /\ (IsCall("setup") \/ IsCall("enable") \/ IsCall("reset")) => io' = io
    /\ (\E r \in SyncRegs : io'[r] # io[r])
          => \/ /\ IsCall("vsync")
                /\ rdma.armed # <<>>
                /\ io' = Replay(io, rdma.armed)
                /\ rdma'.armed = <<>>
             \/ /\ IsCall("disable")
                /\ \A r \in SyncRegs \ {"VPU_MAFBC_SURFACE_CFG"} : io'[r] = io[r]

C2_SyncWritesLandTogetherAtVSync ==
    [][gen = 2 => (C2_State' /\ C2_Step)]_vars

\* a setup and an enable, both without fault, have landed at a vsync
C2_Witness ==
    /\ gen = 2
    /\ ~faulted
    /\ hist = <<"enable", "vsync">>
    /\ afbcd.format = "DRM_FORMAT_ABGR8888"
    /\ LET ws == g12a_setup_writes(afbcd, viu)
       IN  \A i \in 1..Len(ws) : io[ws[i][1]] = ws[i][2]
    /\ <<"VPU_MAFBC_S0_ENABLE", 1>> \in io["VPU_MAFBC_SURFACE_CFG"]
    /\ rdma.armed = <<>>

----------------------------------------------------------------------------
----------------------------------------------------------------------------
(* C4: on GXM supported_fmt is true exactly for XBGR8888 or ABGR8888 with  *)
(* the YTR flag set and the 32x8 flag clear.                               *)
C4_GxmSupportedFmt ==
    (gen = 1 /\ q.op = "supported_fmt")
        => (q.supported <=>
               /\ q.format \in {"DRM_FORMAT_XBGR8888", "DRM_FORMAT_ABGR8888"}
               /\ HasBit(q.modifier, 16)
               /\ ~HasBit(q.modifier, 2))

C4_Witness ==
    /\ gen = 1
    /\ q.op = "supported_fmt"
    /\ q.supported
    /\ q.format = "DRM_FORMAT_XBGR8888"
    /\ HasBit(q.modifier, 64)

----------------------------------------------------------------------------
(* C5: on G12A supported_fmt is true exactly for the six supported formats *)
(* with YTR unset, or with YTR set on XBGR8888 / ABGR8888; the block size  *)
(* and the tiled-header flag never change the answer.                      *)
C5_G12aSupportedFmt ==
    (gen = 2 /\ q.op = "supported_fmt")
        => /\ q.supported <=>
                 /\ q.format \in {"DRM_FORMAT_XRGB8888", "DRM_FORMAT_ARGB8888",
                                  "DRM_FORMAT_XBGR8888", "DRM_FORMAT_ABGR8888",
                                  "DRM_FORMAT_RGB888", "DRM_FORMAT_RGB565"}
                 /\ \/ ~HasBit(q.modifier, 16)
                    \/ q.format \in {"DRM_FORMAT_XBGR8888", "DRM_FORMAT_ABGR8888"}
           /\ \A m \in Modifiers :
                 (/\ HasBit(m, 16) = HasBit(q.modifier, 16)
                  /\ HasBit(m, 32) = HasBit(q.modifier, 32)
                  /\ HasBit(m, 64) = HasBit(q.modifier, 64))
                    => meson_g12a_afbcd_supported_fmt(m, q.format) = q.supported

C5_Witness ==
    /\ gen = 2
    /\ q.op = "supported_fmt"
    /\ q.supported
    /\ q.format = "DRM_FORMAT_RGB565"
    /\ HasBit(q.modifier, 256)
    /\ q.modifier % 16 = 2

----------------------------------------------------------------------------
(* C6: on G12A a format has a valid internal code for some modifier        *)
(* exactly when it has a non-zero bpp and a valid block mode.              *)
C6_LookupsAgree ==
    (gen = 2 /\ q.op = "lookups")
        => /\ (\E m \in Modifiers : meson_g12a_afbcd_pixel_fmt(m, q.format) >= 0)
                 <=> (q.bpp # 0 /\ q.blk.ok)
           /\ (q.bpp # 0) <=> q.blk.ok
           /\ q.code >= 0 => (q.bpp # 0 /\ q.blk.ok)

C6_Witness ==
    /\ gen = 2
    /\ q.op = "lookups"
    /\ q.format = "DRM_FORMAT_RGB565"
    /\ q.code = 0
    /\ q.bpp = 16
    /\ q.blk.ok

----------------------------------------------------------------------------
----------------------------------------------------------------------------
(* C8: on both generations a disable that directly follows a disable       *)
(* returns success and changes no register (and nothing in the transport). *)
C8_DisableTwice ==
    [][(Last(hist) = "disable" /\ IsCall("disable"))
         => (ret' = 0 /\ io' = io /\ rdma' = rdma /\ EnableBit \notin io'[EnableReg])]_vars

\* two disables in a row on a decoder that had been enabled by a replay
C8_Witness ==
    /\ gen = 2
    /\ hist = <<"disable", "disable">>
    /\ ret = 0
    /\ io["VPU_MAFBC_IRQ_MASK"] # {}
    /\ EnableBit \notin io[EnableReg]

----------------------------------------------------------------------------
(* C9: on GXM the line-buffer length setup writes is 32 up to width 128,   *)
(* 64 up to 256, 128 up to 512, 256 up to 1024, 512 up to 2048, else 1024; *)
(* it never decreases as the width grows; 1024 gives 256, 1025 gives 512.  *)
C9_Steps == << <<128, 32>>, <<256, 64>>, <<512, 128>>, <<1024, 256>>, <<2048, 512>> >>

C9_ConvLbufLen ==
    (gen = 1 /\ Last(hist) = "setup")
        => LET w == viu.osd1_width
               len == io["OSD1_AFBCD_CONV_CTRL"]
               fits == {i \in 1..Len(C9_Steps) : w <= C9_Steps[i][1]}
           IN  /\ len = IF fits = {} THEN 1024
                        ELSE C9_Steps[CHOOSE i \in fits : \A j \in fits : i <= j][2]
               /\ len <= conv_lbuf_len(w + 1)
               /\ w > 1 => conv_lbuf_len(w - 1) <= len
               /\ w = 1024 => len = 256
               /\ w = 1025 => len = 512

C9_Witness ==
    /\ gen = 1
    /\ Last(hist) = "setup"
    /\ viu.osd1_width = 1025
    /\ io["OSD1_AFBCD_CONV_CTRL"] = 512

----------------------------------------------------------------------------
(* C10: on G12A, from the return of disable until the next call of enable  *)
(* the surface-0 enable bit the hardware sees stays clear, whatever vsyncs *)
(* and other calls come in between.                                        *)
C10_DisabledStaysDisabled ==
    (gen = 2 /\ want = "off")
        => <<"VPU_MAFBC_S0_ENABLE", 1>> \notin io["VPU_MAFBC_SURFACE_CFG"]

====
